---- MODULE Spec2Model ----
(***************************************************************************)
(* Model of the Vulcan config flow (custom_components/vulcan/              *)
(* config_flow.py): the onboarding and reauthentication state machine of   *)
(* VulcanFlowHandler, run by several flow sessions over one shared entry   *)
(* store.  Every handler is cut at its awaits: the code between two awaits *)
(* runs atomically on the event loop and is one action here.               *)
(***************************************************************************)
EXTENDS Integers, Sequences, FiniteSets, TLC

\* ------------------------------------------------------------------ bounds
NumSessions == 2      \* flow sessions that may be in progress at once
MaxPupil == 2         \* pupil ids the directory can return are 1..MaxPupil
MaxCred == 2          \* credentials the issuer hands out are 1..MaxCred
MaxStudents == 2      \* longest list of profiles the directory returns

Sessions == 1..NumSessions
Pupils == 1..MaxPupil

\* ------------------------------------------------------------- plain values
NoneName == <<"None">>          \* Python's None as a name part
NoCred == 0                     \* self.credential = None
NoStr == <<"str", -1>>          \* no string (an unset id)
NoTitle == <<>>

\* str(student.pupil.id): the string of a pupil id (str() of a string is that
\* string, so the code's str(student_id) of a form key is not applied again).
Str(n) == <<"str", n>>

\* credential.model_dump(mode="json") and RsaCredential.model_validate(record)
model_dump(c) == [dumped |-> c]
model_validate(r) == r.dumped

\* The profiles ("accounts") the directory can return: pupil id and the three
\* name parts, each a sequence of characters.
FirstNames == <<<<"J", "a", "n">>, <<"E", "w", "a">>, <<"O", "l", "a">>, <<"I", "d", "a">>>>
Surname == <<"K", "o">>
\* Pupil 1 is known to the directory with and without a second name (a name can
\* change between two lookups); the other pupils have none.
SecondNames(n) == IF n = 1 THEN {NoneName, <<"M">>} ELSE {NoneName}
Profiles ==
    UNION { { [id |-> n, first_name |-> FirstNames[((n - 1) % 4) + 1],
               second_name |-> m, surname |-> Surname] : m \in SecondNames(n) }
            : n \in Pupils }

\* Python truthiness of a name part: None and "" are false.
Truthy(part) == part # NoneName /\ part # <<>>

RECURSIVE Join(_)
Join(parts) ==
    IF Len(parts) = 0 THEN <<>>
    ELSE IF Len(parts) = 1 THEN parts[1]
    ELSE parts[1] \o <<" ">> \o Join(Tail(parts))

\* _format_student_name(student)
_format_student_name(student) ==
    LET parts == <<student.first_name>>
                 \o (IF Truthy(student.second_name) THEN <<student.second_name>> ELSE <<>>)
                 \o <<student.surname>>
    IN Join(SelectSeq(parts, Truthy))

\* The lists get_accounts returns: at most MaxStudents profiles with pairwise
\* different pupil ids, in ascending order of id.
RECURSIVE SeqsUpTo(_)
SeqsUpTo(n) ==
    IF n = 0 THEN {<<>>}
    ELSE LET shorter == SeqsUpTo(n - 1)
         IN shorter \cup { Append(q, p) : q \in { r \in shorter : Len(r) = n - 1 },
                                          p \in Profiles }
Ascending(q) == \A a, b \in DOMAIN q : a < b => q[a].id < q[b].id
StudentLists == { q \in SeqsUpTo(MaxStudents) : Ascending(q) }

\* ------------------------------------------------------------ collaborators
\* What register() (the Credential Issuer) and get_students() (the Profile
\* Directory Client) can raise.  OtherError is any failure outside the taxonomy.
IssuerFailures ==
    {"MissingUnitSymbolException", "WrongTokenException", "UsedTokenException",
     "WrongPINException", "ExpiredTokenException", "FailedRequestException",
     "HttpUnsuccessfullStatusException", "ClientConnectionError", "OtherError"}
DirectoryFailures ==
    {"CertificateNotFoundException", "FailedRequestException",
     "HttpUnsuccessfullStatusException", "ClientConnectionError", "OtherError"}
Exceptions == IssuerFailures \cup DirectoryFailures

\* Mutant of AuthExcept: the clause for ExpiredTokenException is missing.
AuthExceptNoExpiredToken ==
    << [types |-> {"MissingUnitSymbolException"}, step |-> "auth", code |-> "invalid_symbol"],
       [types |-> {"WrongTokenException", "UsedTokenException"}, step |-> "auth", code |-> "invalid_token"],
       [types |-> {"WrongPINException"}, step |-> "auth", code |-> "invalid_pin"],
       [types |-> {"FailedRequestException", "HttpUnsuccessfullStatusException"}, step |-> "auth", code |-> "cannot_connect"],
       [types |-> {"ClientConnectionError"}, step |-> "auth", code |-> "cannot_connect"],
       [types |-> {"MissingUnitSymbolException", "WrongTokenException", "UsedTokenException",
                   "WrongPINException", "ExpiredTokenException", "FailedRequestException",
                   "HttpUnsuccessfullStatusException", "ClientConnectionError", "OtherError",
                   "CertificateNotFoundException"},
        step |-> "auth", code |-> "unknown"] >>

\* The except clauses of each try statement, in source order: the exception
\* types a clause names, the step whose form it ends in and the error code.
AuthExcept ==
    << [types |-> {"MissingUnitSymbolException"}, step |-> "auth", code |-> "invalid_symbol"],
       [types |-> {"WrongTokenException", "UsedTokenException"}, step |-> "auth", code |-> "invalid_token"],
       [types |-> {"WrongPINException"}, step |-> "auth", code |-> "invalid_pin"],
       [types |-> {"ExpiredTokenException"}, step |-> "auth", code |-> "expired_token"],
       [types |-> {"FailedRequestException", "HttpUnsuccessfullStatusException"}, step |-> "auth", code |-> "cannot_connect"],
       [types |-> {"ClientConnectionError"}, step |-> "auth", code |-> "cannot_connect"],
       [types |-> Exceptions, step |-> "auth", code |-> "unknown"] >>

ReauthExcept ==
    << [types |-> {"MissingUnitSymbolException"}, step |-> "reauth_confirm", code |-> "invalid_symbol"],
       [types |-> {"WrongTokenException", "UsedTokenException"}, step |-> "reauth_confirm", code |-> "invalid_token"],
       [types |-> {"WrongPINException"}, step |-> "reauth_confirm", code |-> "invalid_pin"],
       [types |-> {"ExpiredTokenException"}, step |-> "reauth_confirm", code |-> "expired_token"],
       [types |-> {"FailedRequestException", "HttpUnsuccessfullStatusException"}, step |-> "reauth_confirm", code |-> "cannot_connect"],
       [types |-> {"ClientConnectionError"}, step |-> "reauth_confirm", code |-> "cannot_connect"],
       [types |-> Exceptions, step |-> "reauth_confirm", code |-> "unknown"] >>

\* Mutant of SavedCredentialsExcept: a connection error falls back to auth.
SavedCredentialsExceptToAuth ==
    << [types |-> {"CertificateNotFoundException"}, step |-> "auth", code |-> "expired_credentials"],
       [types |-> {"FailedRequestException", "HttpUnsuccessfullStatusException"}, step |-> "auth", code |-> "cannot_connect"],
       [types |-> {"ClientConnectionError"}, step |-> "auth", code |-> "cannot_connect"],
       [types |-> {"MissingUnitSymbolException", "WrongTokenException", "UsedTokenException",
                   "WrongPINException", "ExpiredTokenException", "FailedRequestException",
                   "HttpUnsuccessfullStatusException", "ClientConnectionError", "OtherError",
                   "CertificateNotFoundException"},
        step |-> "auth", code |-> "unknown"] >>

SavedCredentialsExcept ==
    << [types |-> {"CertificateNotFoundException"}, step |-> "auth", code |-> "expired_credentials"],
       [types |-> {"FailedRequestException", "HttpUnsuccessfullStatusException"}, step |-> "select_saved_credentials", code |-> "cannot_connect"],
       [types |-> {"ClientConnectionError"}, step |-> "select_saved_credentials", code |-> "cannot_connect"],
       [types |-> Exceptions, step |-> "auth", code |-> "unknown"] >>

AddNextExcept ==
    << [types |-> {"CertificateNotFoundException"}, step |-> "auth", code |-> "expired_credentials"],
       [types |-> {"FailedRequestException", "HttpUnsuccessfullStatusException"}, step |-> "add_next_config_entry", code |-> "cannot_connect"],
       [types |-> {"ClientConnectionError"}, step |-> "add_next_config_entry", code |-> "cannot_connect"] >>

\* Python's dispatch of a raised exception: the first clause that names it.
Caught(clauses, exc) == \E k \in DOMAIN clauses : exc \in clauses[k].types
Handler(clauses, exc) ==
    clauses[CHOOSE k \in DOMAIN clauses :
                /\ exc \in clauses[k].types
                /\ \A m \in 1..(k - 1) : exc \notin clauses[m].types]

\* ------------------------------------------------------------------- state
VARIABLES
    entries,    \* hass.config_entries.async_entries(DOMAIN), in insertion order;
                \* an entry's entry_id is its position
    flow,       \* per session: the handler object and where it stands
    issued,     \* credentials created so far (RsaCredential.create_new)
    calls,      \* per session: the update/reload calls its reauth made, in order
    hass_data,  \* hass.data: whether it has the DOMAIN key, and what is under it
    setup       \* per entry id: where its async_setup_entry / async_unload_entry
                \* stands, and what the last call returned or raised

vars == <<entries, flow, issued, calls, hass_data, setup>>

NoData == [student_id |-> NoStr, credential |-> model_dump(NoCred)]
NoResult ==
    [type |-> "none", step_id |-> "none", errors |-> "none", reason |-> "none",
     title |-> NoTitle, data |-> NoData]

\* The locals of a handler that is suspended at an await.
NoLocal ==
    [credential |-> NoCred, students |-> <<>>, student_id |-> NoStr,
     title |-> NoTitle, existing_entries |-> 0, i |-> 0, j |-> 0,
     matching_entries |-> FALSE, existing_entry |-> FALSE]

\* VulcanFlowHandler.__init__, before the flow manager has run any step.
\* hass.data before any entry of the integration was set up: no DOMAIN key.
NoHassData == [domain |-> FALSE, students_number |-> -1, clients |-> <<>>]

NewFlow ==
    [cur_step |-> "none", pc |-> "idle", result |-> NoResult,
     credential |-> NoCred, students |-> <<>>, has_students |-> FALSE,
     unique_id |-> NoStr, local |-> NoLocal]

\* An entry set up before the flows of this model start, for a pupil the
\* directory no longer lists: title and data as a finalize wrote them.
EarlierProfile ==
    [id |-> 0, first_name |-> <<"Z", "o", "e">>, second_name |-> NoneName,
     surname |-> Surname]
EarlierEntry ==
    [unique_id |-> Str(EarlierProfile.id),
     title |-> _format_student_name(EarlierProfile),
     data |-> [student_id |-> Str(EarlierProfile.id), credential |-> model_dump(1)]]

\* The flows start in a Home Assistant instance with no Vulcan entry, or with
\* the one entry set up earlier (whose credential was the first one issued).
Init ==
    /\ \/ entries = <<>> /\ issued = 0
       \/ entries = <<EarlierEntry>> /\ issued = 1
    /\ flow = [s \in Sessions |-> NewFlow]
    /\ calls = [s \in Sessions |-> <<>>]
    /\ hass_data = NoHassData
    /\ setup = <<>>

\* ---------------------------------------------------------- step results
\* self.async_show_form(step_id=..., errors=...): the caller is shown the form
\* of step_id and will call that step with the input.
async_show_form(f, step_id, errors) ==
    [f EXCEPT !.cur_step = step_id, !.pc = "idle", !.local = NoLocal,
              !.result = [NoResult EXCEPT !.type = "form", !.step_id = step_id,
                                          !.errors = errors]]

\* self.async_abort(reason=...), and AbortFlow raised by the uniqueness check.
async_abort(f, reason) ==
    [f EXCEPT !.cur_step = "done", !.pc = "idle", !.local = NoLocal,
              !.result = [NoResult EXCEPT !.type = "abort", !.reason = reason]]

\* self.async_create_entry(title=..., data=...)
async_create_entry(f, title, data) ==
    [f EXCEPT !.cur_step = "done", !.pc = "idle", !.local = NoLocal,
              !.result = [NoResult EXCEPT !.type = "create_entry", !.title = title,
                                          !.data = data]]

\* An exception no except clause names leaves the handler: the caller gets the
\* exception instead of a step result, and the flow stays where it was.
Propagate(f, exc) ==
    [f EXCEPT !.pc = "idle", !.local = NoLocal,
              !.result = [NoResult EXCEPT !.type = "raised", !.reason = exc]]

\* ------------------------------------------------------------- collaborator results
IssuerResults ==
    {[ok |-> TRUE, exc |-> "none"]} \cup {[ok |-> FALSE, exc |-> e] : e \in IssuerFailures}
DirectoryResults ==
    {[ok |-> TRUE, exc |-> "none", students |-> q] : q \in StudentLists}
    \cup {[ok |-> FALSE, exc |-> e, students |-> <<>>] : e \in DirectoryFailures}

\* The directory still listing the pupil of the earlier entry, ahead of a
\* longest list of the others.
LongResults ==
    {[ok |-> TRUE, exc |-> "none", students |-> <<EarlierProfile>> \o q] :
        q \in {l \in StudentLists : Len(l) = MaxStudents}}

\* The directory answering with one profile whose second name is absent, empty,
\* blank or a name: the inputs of _format_student_name.
NamedProfiles ==
    { [id |-> n, first_name |-> FirstNames[1], second_name |-> m, surname |-> Surname] :
        n \in Pupils, m \in {NoneName, <<>>, <<" ">>, <<" ", " ">>, <<"M">>} }
NamedResults == {[ok |-> TRUE, exc |-> "none", students |-> <<P>>] : P \in NamedProfiles}

\* ------------------------------------------------------------- entry store
Entry(unique_id, title, data) == [unique_id |-> unique_id, title |-> title, data |-> data]

\* An await of a collaborator: the handler is suspended at the await with its
\* locals until the event loop resumes it; the caller has no result yet.
Await(f, at, local) == [f EXCEPT !.pc = at, !.local = local, !.result = NoResult]

\* await self.async_set_unique_id(uid): the flow's unique id is set; the locals
\* also record whether an entry with this unique id existed at that moment.
async_set_unique_id(f, unique_id, at, local) ==
    Await([f EXCEPT !.unique_id = unique_id], at,
          [local EXCEPT !.existing_entry =
              \E k \in DOMAIN entries : entries[k].unique_id = unique_id])

\* Mutants of the uniqueness check: left out, and made on what was seen before
\* the await.
NoUniqueIdCheck(s) == FALSE
StaleUniqueIdCheck(s) == flow[s].local.existing_entry

\* self._abort_if_unique_id_configured(): TRUE when it aborts the flow, that is
\* when an entry with the flow's unique id exists now.
_abort_if_unique_id_configured(s) ==
    \E k \in DOMAIN entries : entries[k].unique_id = flow[s].unique_id

\* Mutant of Finalize: a configured student is overwritten instead of aborting.
FinalizeOverwrite(s, title, data) ==
    IF _abort_if_unique_id_configured(s)
    THEN /\ flow' = [flow EXCEPT ![s] = async_create_entry(@, title, data)]
         /\ entries' = [k \in DOMAIN entries |->
                           IF entries[k].unique_id = flow[s].unique_id
                           THEN Entry(flow[s].unique_id, title, data)
                           ELSE entries[k]]
    ELSE /\ flow' = [flow EXCEPT ![s] = async_create_entry(@, title, data)]
         /\ entries' = Append(entries, Entry(flow[s].unique_id, title, data))

\* The rest of a finalize, run when the handler resumes:
\*     self._abort_if_unique_id_configured()
\*     return self.async_create_entry(title=..., data={student_id, credential})
\* The flow manager stores the entry created under the flow's unique id.
Finalize(s, title, data) ==
    IF _abort_if_unique_id_configured(s)
    THEN /\ flow' = [flow EXCEPT ![s] = async_abort(@, "already_configured")]
         /\ UNCHANGED entries
    ELSE /\ flow' = [flow EXCEPT ![s] = async_create_entry(@, title, data)]
         /\ entries' = Append(entries, Entry(flow[s].unique_id, title, data))

\* async_step_select_student(None): the form of select_student
ShowSelectStudent(f) == async_show_form(f, "select_student", "none")

\* --------------------------------------------------------------- the steps
\* Mutant of async_step_user: the entries are not looked at.
async_step_userAlwaysAuth(s) ==
    /\ flow[s].cur_step = "none"
    /\ flow' = [flow EXCEPT ![s] = async_show_form(@, "auth", "none")]
    /\ UNCHANGED <<entries, issued, calls, hass_data, setup>>

\* async_step_user: the flow manager starts a flow begun by the user.
async_step_user(s) ==
    /\ flow[s].cur_step = "none"
    /\ flow' = [flow EXCEPT ![s] =
                   IF Len(entries) > 0
                   THEN async_show_form(@, "add_next_config_entry", "none")
                   ELSE async_show_form(@, "auth", "none")]
    /\ UNCHANGED <<entries, issued, calls, hass_data, setup>>

\* async_step_auth(user_input) up to its first await: register() creates a
\* credential and awaits the issuer.
AuthSubmit(s) ==
    /\ flow[s].cur_step = "auth" /\ flow[s].pc = "idle"
    /\ issued < MaxCred
    /\ flow' = [flow EXCEPT ![s] = Await(@, "auth_register", NoLocal)]
    /\ UNCHANGED <<entries, issued, calls, hass_data, setup>>

\* register() returns or raises; on success the directory is called.
AuthRegisterReturn(s, r) ==
    /\ flow[s].pc = "auth_register"
    /\ r \in IssuerResults
    /\ IF r.ok
          THEN /\ issued' = issued + 1
               /\ flow' = [flow EXCEPT ![s] = Await(@, "auth_get_students",
                                       [NoLocal EXCEPT !.credential = issued + 1])]
          ELSE /\ flow' = [flow EXCEPT ![s] =
                              async_show_form(@, "auth", Handler(AuthExcept, r.exc).code)]
               /\ UNCHANGED issued
    /\ UNCHANGED <<entries, calls, hass_data, setup>>

\* Mutant of AuthGetStudentsReturn: after a connection error of the directory
\* the try block is run again at once, starting with register().
AuthGetStudentsReturnRetries(s, r) ==
    /\ flow[s].pc = "auth_get_students"
    /\ r \in DirectoryResults \cup NamedResults
    /\ LET credential == flow[s].local.credential
              students == r.students
          IN flow' = [flow EXCEPT ![s] =
                 IF ~r.ok
                 THEN IF Handler(AuthExcept, r.exc).code = "cannot_connect"
                      THEN Await(@, "auth_register", NoLocal)
                      ELSE async_show_form(@, "auth", Handler(AuthExcept, r.exc).code)
                 ELSE IF Len(students) > 1
                 THEN ShowSelectStudent([@ EXCEPT !.credential = credential,
                                                  !.students = students,
                                                  !.has_students = TRUE])
                 ELSE IF Len(students) = 0 THEN Propagate(@, "IndexError")
                 ELSE async_set_unique_id(@, Str(students[1].id), "auth_set_unique_id",
                          [NoLocal EXCEPT !.credential = credential, !.students = students])]
    /\ UNCHANGED <<entries, issued, calls, hass_data, setup>>

\* Mutant of AuthGetStudentsReturn: "len(students) >= 1" for "> 1", so a single
\* student is offered for selection as well.
AuthGetStudentsReturnSelectsOne(s, r) ==
    /\ flow[s].pc = "auth_get_students"
    /\ r \in DirectoryResults \cup NamedResults
    /\ flow' = [flow EXCEPT ![s] =
           IF ~r.ok THEN async_show_form(@, "auth", Handler(AuthExcept, r.exc).code)
           ELSE IF Len(r.students) >= 1
           THEN ShowSelectStudent([@ EXCEPT !.credential = flow[s].local.credential,
                                            !.students = r.students,
                                            !.has_students = TRUE])
           ELSE Propagate(@, "IndexError")]
    /\ UNCHANGED <<entries, issued, calls, hass_data, setup>>

\* get_students() returns or raises: the except clauses, or the else branch up
\* to the await of async_set_unique_id.
AuthGetStudentsReturn(s, r) ==
    /\ flow[s].pc = "auth_get_students"
    /\ r \in DirectoryResults \cup NamedResults
    /\ LET credential == flow[s].local.credential
              students == r.students
          IN flow' = [flow EXCEPT ![s] =
                 IF ~r.ok THEN async_show_form(@, "auth", Handler(AuthExcept, r.exc).code)
                 ELSE IF Len(students) > 1
                 THEN ShowSelectStudent([@ EXCEPT !.credential = credential,
                                                  !.students = students,
                                                  !.has_students = TRUE])
                 ELSE IF Len(students) = 0 THEN Propagate(@, "IndexError")
                 ELSE async_set_unique_id(@, Str(students[1].id), "auth_set_unique_id",
                          [NoLocal EXCEPT !.credential = credential, !.students = students])]
    /\ UNCHANGED <<entries, issued, calls, hass_data, setup>>

\* async_step_auth resumes after async_set_unique_id: lines 115-122.
AuthFinalize(s) ==
    /\ flow[s].pc = "auth_set_unique_id"
    /\ LET student == flow[s].local.students[1]
       IN Finalize(s, _format_student_name(student),
                   [student_id |-> Str(student.id),
                    credential |-> model_dump(flow[s].local.credential)])
    /\ UNCHANGED <<issued, calls, hass_data, setup>>

\* The dict async_step_select_student builds from self.students.
StudentsDict(students) ==
    [key \in {Str(students[k].id) : k \in DOMAIN students} |->
        LET last == CHOOSE k \in DOMAIN students :
                        /\ Str(students[k].id) = key
                        /\ \A m \in DOMAIN students : Str(students[m].id) = key => m <= k
        IN _format_student_name(students[last])]

\* async_step_select_student(user_input): the chosen key is one the form offered.
SelectStudentSubmit(s, student_id) ==
    /\ flow[s].cur_step = "select_student" /\ flow[s].pc = "idle"
    /\ student_id \in DOMAIN StudentsDict(flow[s].students)
    /\ flow' = [flow EXCEPT ![s] =
              IF @.credential # NoCred
              THEN async_set_unique_id(@, student_id, "select_student_set_unique_id",
                       [NoLocal EXCEPT !.student_id = student_id])
              ELSE ShowSelectStudent(@)]
    /\ UNCHANGED <<entries, issued, calls, hass_data, setup>>

\* Mutant of SelectStudentFinalize: the title is the name of the first student
\* of the list, not of the chosen one.
SelectStudentFinalizeFirstTitle(s) ==
    /\ flow[s].pc = "select_student_set_unique_id"
    /\ LET student_id == flow[s].local.student_id
       IN Finalize(s, _format_student_name(flow[s].students[1]),
                   [student_id |-> student_id,
                    credential |-> model_dump(flow[s].credential)])
    /\ UNCHANGED <<issued, calls, hass_data, setup>>

\* async_step_select_student resumes after async_set_unique_id: lines 140-147.
SelectStudentFinalize(s) ==
    /\ flow[s].pc = "select_student_set_unique_id"
    /\ LET student_id == flow[s].local.student_id
       IN Finalize(s, StudentsDict(flow[s].students)[student_id],
                   [student_id |-> student_id,
                    credential |-> model_dump(flow[s].credential)])
    /\ UNCHANGED <<issued, calls, hass_data, setup>>

\* Mutant of SavedCredentialsSubmit: self.credential is assigned as soon as the
\* credential is loaded, before the directory has answered.
SavedCredentialsSubmitStashes(s) ==
    /\ flow[s].cur_step = "select_saved_credentials" /\ flow[s].pc = "idle"
    /\ \E entry_id \in DOMAIN entries :
          flow' = [flow EXCEPT ![s] =
                      Await([@ EXCEPT !.credential =
                                model_validate(entries[entry_id].data.credential)],
                            "saved_get_students",
                            [NoLocal EXCEPT !.credential =
                                model_validate(entries[entry_id].data.credential)])]
    /\ UNCHANGED <<entries, issued, calls, hass_data, setup>>

\* async_step_select_saved_credentials(user_input) up to its await: the chosen
\* entry is one the form offered; its credential is loaded and the directory
\* called.
SavedCredentialsSubmit(s) ==
    /\ flow[s].cur_step = "select_saved_credentials" /\ flow[s].pc = "idle"
    /\ \E entry_id \in DOMAIN entries :
          flow' = [flow EXCEPT ![s] = Await(@, "saved_get_students",
                               [NoLocal EXCEPT !.credential =
                                   model_validate(entries[entry_id].data.credential)])]
    /\ UNCHANGED <<entries, issued, calls, hass_data, setup>>

\* Mutant of SavedCredentialsGetStudentsReturn: line 194 (self.credential =
\* credential) is left out.
SavedCredentialsGetStudentsReturnNoStash(s, r) ==
    /\ flow[s].pc = "saved_get_students"
    /\ r \in DirectoryResults
    /\ flow' = [flow EXCEPT ![s] =
           IF ~r.ok
           THEN async_show_form(@, Handler(SavedCredentialsExcept, r.exc).step,
                                Handler(SavedCredentialsExcept, r.exc).code)
           ELSE IF Len(r.students) = 1
           THEN async_set_unique_id(@, Str(r.students[1].id), "saved_set_unique_id",
                    [NoLocal EXCEPT !.credential = flow[s].local.credential,
                                    !.students = r.students])
           ELSE ShowSelectStudent([@ EXCEPT !.students = r.students,
                                            !.has_students = TRUE])]
    /\ UNCHANGED <<entries, issued, calls, hass_data, setup>>

\* Mutant of SavedCredentialsGetStudentsReturn: the students that have an entry
\* are filtered out before the list is stashed, as add_next_config_entry does.
SavedCredentialsGetStudentsReturnFiltered(s, r) ==
    /\ flow[s].pc = "saved_get_students"
    /\ r \in DirectoryResults
    /\ LET unconfigured(student) ==
              \A k \in DOMAIN entries : entries[k].data.student_id # Str(student.id)
       IN flow' = [flow EXCEPT ![s] =
              IF ~r.ok
              THEN async_show_form(@, Handler(SavedCredentialsExcept, r.exc).step,
                                   Handler(SavedCredentialsExcept, r.exc).code)
              ELSE IF Len(r.students) = 1
              THEN async_set_unique_id(@, Str(r.students[1].id), "saved_set_unique_id",
                       [NoLocal EXCEPT !.credential = flow[s].local.credential,
                                       !.students = r.students])
              ELSE ShowSelectStudent([@ EXCEPT !.credential = flow[s].local.credential,
                                               !.students = SelectSeq(r.students, unconfigured),
                                               !.has_students = TRUE])]
    /\ UNCHANGED <<entries, issued, calls, hass_data, setup>>

\* get_students() returns or raises in async_step_select_saved_credentials.
SavedCredentialsGetStudentsReturn(s, r) ==
    /\ flow[s].pc = "saved_get_students"
    /\ r \in DirectoryResults
    /\ LET credential == flow[s].local.credential
              students == r.students
          IN flow' = [flow EXCEPT ![s] =
                 IF ~r.ok
                 THEN async_show_form(@, Handler(SavedCredentialsExcept, r.exc).step,
                                      Handler(SavedCredentialsExcept, r.exc).code)
                 ELSE IF Len(students) = 1
                 THEN async_set_unique_id(@, Str(students[1].id), "saved_set_unique_id",
                          [NoLocal EXCEPT !.credential = credential, !.students = students])
                 ELSE ShowSelectStudent([@ EXCEPT !.credential = credential,
                                                  !.students = students,
                                                  !.has_students = TRUE])]
    /\ UNCHANGED <<entries, issued, calls, hass_data, setup>>

\* Mutant of SavedCredentialsFinalize: the entry gets the credential of the
\* first stored entry, not the one the directory was asked with.
SavedCredentialsFinalizeFirstCredential(s) ==
    /\ flow[s].pc = "saved_set_unique_id"
    /\ LET student == flow[s].local.students[1]
       IN Finalize(s, _format_student_name(student),
                   [student_id |-> Str(student.id),
                    credential |-> entries[1].data.credential])
    /\ UNCHANGED <<issued, calls, hass_data, setup>>

\* async_step_select_saved_credentials resumes after async_set_unique_id.
SavedCredentialsFinalize(s) ==
    /\ flow[s].pc = "saved_set_unique_id"
    /\ LET student == flow[s].local.students[1]
       IN Finalize(s, _format_student_name(student),
                   [student_id |-> Str(student.id),
                    credential |-> model_dump(flow[s].local.credential)])
    /\ UNCHANGED <<issued, calls, hass_data, setup>>

\* Mutant of AddNextInput: "len(existing_entries) >= 1" for "> 1", so the one
\* stored credential is offered for selection instead of being used.
AddNextInputAsksWhenOne(s, use_saved_credentials) ==
    /\ flow[s].cur_step = "add_next_config_entry" /\ flow[s].pc = "idle"
    /\ flow' = [flow EXCEPT ![s] =
           IF ~use_saved_credentials THEN async_show_form(@, "auth", "none")
           ELSE IF Len(entries) >= 1
           THEN async_show_form(@, "select_saved_credentials", "none")
           ELSE Propagate(@, "IndexError")]
    /\ UNCHANGED <<entries, issued, calls, hass_data, setup>>

\* async_step_add_next_config_entry(user_input) up to its await.  The list
\* existing_entries holds the entries present now (their number stands for it:
\* entries are never removed and the list holds the entry objects themselves).
AddNextInput(s, use_saved_credentials) ==
    /\ flow[s].cur_step = "add_next_config_entry" /\ flow[s].pc = "idle"
    /\ LET existing_entries == Len(entries)
       IN flow' = [flow EXCEPT ![s] =
              IF ~use_saved_credentials THEN async_show_form(@, "auth", "none")
              ELSE IF existing_entries > 1
              THEN async_show_form(@, "select_saved_credentials", "none")
              ELSE IF existing_entries = 0 THEN Propagate(@, "IndexError")
              ELSE Await(@, "next_get_students",
                         [NoLocal EXCEPT
                             !.existing_entries = existing_entries,
                             !.credential = model_validate(entries[1].data.credential)])]
    /\ UNCHANGED <<entries, issued, calls, hass_data, setup>>

\* The user submits the form of add_next_config_entry, with either answer.
AddNextSubmit(s) ==
    \E use_saved_credentials \in BOOLEAN : AddNextInput(s, use_saved_credentials)

\* new_students of async_step_add_next_config_entry: the returned students
\* whose id is not the student_id of an entry of existing_entries.
NewStudentsUnfiltered(students, existing_entries) == students
NewStudents(students, existing_entries) ==
    LET existing_entry_ids == {entries[k].data.student_id : k \in 1..existing_entries}
        keep(student) == Str(student.id) \notin existing_entry_ids
    IN SelectSeq(students, keep)

\* Mutant of AddNextGetStudentsReturn: line 257 stashes students, the whole
\* answer of the directory, instead of new_students.
AddNextGetStudentsReturnStashesAll(s, r) ==
    /\ flow[s].pc = "next_get_students"
    /\ r \in DirectoryResults \cup LongResults
    /\ LET credential == flow[s].local.credential
              new_students == NewStudents(r.students, flow[s].local.existing_entries)
          IN flow' = [flow EXCEPT ![s] =
                 IF ~r.ok
                 THEN IF Caught(AddNextExcept, r.exc)
                      THEN async_show_form(@, Handler(AddNextExcept, r.exc).step,
                                           Handler(AddNextExcept, r.exc).code)
                      ELSE Propagate(@, r.exc)
                 ELSE IF Len(new_students) = 0
                 THEN async_abort(@, "all_student_already_configured")
                 ELSE IF Len(new_students) = 1
                 THEN async_set_unique_id(@, Str(new_students[1].id), "next_set_unique_id",
                          [NoLocal EXCEPT !.credential = credential, !.students = new_students])
                 ELSE ShowSelectStudent([@ EXCEPT !.credential = credential,
                                                  !.students = r.students,
                                                  !.has_students = TRUE])]
    /\ UNCHANGED <<entries, issued, calls, hass_data, setup>>

\* get_students() returns or raises in async_step_add_next_config_entry.
AddNextGetStudentsReturn(s, r) ==
    /\ flow[s].pc = "next_get_students"
    /\ r \in DirectoryResults \cup LongResults
    /\ LET credential == flow[s].local.credential
              new_students == NewStudents(r.students, flow[s].local.existing_entries)
          IN flow' = [flow EXCEPT ![s] =
                 IF ~r.ok
                 THEN IF Caught(AddNextExcept, r.exc)
                      THEN async_show_form(@, Handler(AddNextExcept, r.exc).step,
                                           Handler(AddNextExcept, r.exc).code)
                      ELSE Propagate(@, r.exc)
                 ELSE IF Len(new_students) = 0
                 THEN async_abort(@, "all_student_already_configured")
                 ELSE IF Len(new_students) = 1
                 THEN async_set_unique_id(@, Str(new_students[1].id), "next_set_unique_id",
                          [NoLocal EXCEPT !.credential = credential, !.students = new_students])
                 ELSE ShowSelectStudent([@ EXCEPT !.credential = credential,
                                                  !.students = new_students,
                                                  !.has_students = TRUE])]
    /\ UNCHANGED <<entries, issued, calls, hass_data, setup>>

\* async_step_add_next_config_entry resumes after async_set_unique_id.
AddNextFinalize(s) ==
    /\ flow[s].pc = "next_set_unique_id"
    /\ LET student == flow[s].local.students[1]
       IN Finalize(s, _format_student_name(student),
                   [student_id |-> Str(student.id),
                    credential |-> model_dump(flow[s].local.credential)])
    /\ UNCHANGED <<issued, calls, hass_data, setup>>

\* async_step_reauth: the flow manager starts a reauthentication flow for an
\* entry whose setup failed to authenticate.
async_step_reauth(s) ==
    /\ flow[s].cur_step = "none"
    /\ Len(entries) > 0
    /\ flow' = [flow EXCEPT ![s] = async_show_form(@, "reauth_confirm", "none")]
    /\ UNCHANGED <<entries, issued, calls, hass_data, setup>>

\* async_step_reauth_confirm(user_input) up to its first await, in register().
ReauthSubmit(s) ==
    /\ flow[s].cur_step = "reauth_confirm" /\ flow[s].pc = "idle"
    /\ issued < MaxCred
    /\ flow' = [flow EXCEPT ![s] = Await(@, "reauth_register", NoLocal)]
    /\ UNCHANGED <<entries, issued, calls, hass_data, setup>>

\* Mutant of ReauthRegisterReturn: a failure of register() is swallowed and
\* the directory is called all the same, without a credential.
ReauthRegisterReturnGoesOn(s, r) ==
    /\ flow[s].pc = "reauth_register"
    /\ r \in IssuerResults
    /\ IF r.ok
          THEN /\ issued' = issued + 1
               /\ flow' = [flow EXCEPT ![s] = Await(@, "reauth_get_students",
                                       [NoLocal EXCEPT !.credential = issued + 1])]
          ELSE /\ flow' = [flow EXCEPT ![s] = Await(@, "reauth_get_students", NoLocal)]
               /\ UNCHANGED issued
    /\ UNCHANGED <<entries, calls, hass_data, setup>>

\* register() returns or raises; on success the directory is called.
ReauthRegisterReturn(s, r) ==
    /\ flow[s].pc = "reauth_register"
    /\ r \in IssuerResults
    /\ IF r.ok
          THEN /\ issued' = issued + 1
               /\ flow' = [flow EXCEPT ![s] = Await(@, "reauth_get_students",
                                       [NoLocal EXCEPT !.credential = issued + 1])]
          ELSE /\ flow' = [flow EXCEPT ![s] =
                              async_show_form(@, "reauth_confirm",
                                              Handler(ReauthExcept, r.exc).code)]
               /\ UNCHANGED issued
    /\ UNCHANGED <<entries, calls, hass_data, setup>>

\* Mutant of MatchesFrom: the comparison of the ids (line 310) is left out.
MatchesFromAnyId(students, existing_entries, i, j) ==
    { pair \in (i..Len(students)) \X (1..existing_entries) :
        pair[1] > i \/ pair[2] >= j }

\* The (student, entry) pairs the two nested loops of reauth_confirm still have
\* to visit from position (i, j) on and whose ids match (line 310).
MatchesFrom(students, existing_entries, i, j) ==
    { pair \in (i..Len(students)) \X (1..existing_entries) :
        /\ pair[1] > i \/ pair[2] >= j
        /\ Str(students[pair[1]].id) = entries[pair[2]].data.student_id }

FirstPair(pairs) ==
    CHOOSE pair \in pairs :
        \A other \in pairs :
            \/ pair[1] < other[1]
            \/ pair[1] = other[1] /\ pair[2] <= other[2]

\* Mutant of ReauthLoop: the reload is requested before the entry is updated.
ReauthLoopReloadsFirst(s, local, i, j) ==
    LET pairs == MatchesFrom(local.students, local.existing_entries, i, j)
    IN IF pairs = {}
       THEN /\ flow' = [flow EXCEPT ![s] =
                           IF local.matching_entries
                           THEN async_abort(@, "reauth_successful")
                           ELSE async_abort(@, "no_matching_entries")]
            /\ UNCHANGED <<entries, calls, hass_data, setup>>
       ELSE LET pair == FirstPair(pairs)
                student == local.students[pair[1]]
            IN /\ entries' = [entries EXCEPT ![pair[2]] =
                                 [@ EXCEPT !.title = _format_student_name(student),
                                           !.data = [student_id |-> Str(student.id),
                                                     credential |-> model_dump(local.credential)]]]
               /\ UNCHANGED <<hass_data, setup>>
               /\ calls' = [calls EXCEPT ![s] =
                               @ \o << <<"async_reload", pair[2]>>,
                                       <<"async_update_entry", pair[2]>> >>]
               /\ flow' = [flow EXCEPT ![s] = Await(@, "reauth_reload",
                                       [local EXCEPT !.i = pair[1], !.j = pair[2]])]

\* Mutant of ReauthLoop: the abort without a match has another reason.
ReauthLoopOtherReason(s, local, i, j) ==
    LET pairs == MatchesFrom(local.students, local.existing_entries, i, j)
    IN IF pairs = {}
       THEN /\ flow' = [flow EXCEPT ![s] =
                           IF local.matching_entries
                           THEN async_abort(@, "reauth_successful")
                           ELSE async_abort(@, "reauth_unsuccessful")]
            /\ UNCHANGED <<entries, calls, hass_data, setup>>
       ELSE LET pair == FirstPair(pairs)
                student == local.students[pair[1]]
            IN /\ entries' = [entries EXCEPT ![pair[2]] =
                                 [@ EXCEPT !.title = _format_student_name(student),
                                           !.data = [student_id |-> Str(student.id),
                                                     credential |-> model_dump(local.credential)]]]
               /\ UNCHANGED <<hass_data, setup>>
               /\ calls' = [calls EXCEPT ![s] =
                               @ \o << <<"async_update_entry", pair[2]>>,
                                       <<"async_reload", pair[2]>> >>]
               /\ flow' = [flow EXCEPT ![s] = Await(@, "reauth_reload",
                                       [local EXCEPT !.i = pair[1], !.j = pair[2]])]

\* Mutant of ReauthLoop: async_update_entry is given the entry's old data, so
\* the new credential is not stored.
ReauthLoopKeepsCredential(s, local, i, j) ==
    LET pairs == MatchesFrom(local.students, local.existing_entries, i, j)
    IN IF pairs = {}
       THEN /\ flow' = [flow EXCEPT ![s] =
                           IF local.matching_entries
                           THEN async_abort(@, "reauth_successful")
                           ELSE async_abort(@, "no_matching_entries")]
            /\ UNCHANGED <<entries, calls, hass_data, setup>>
       ELSE LET pair == FirstPair(pairs)
                student == local.students[pair[1]]
            IN /\ entries' = [entries EXCEPT ![pair[2]] =
                                 [@ EXCEPT !.title = _format_student_name(student)]]
               /\ UNCHANGED <<hass_data, setup>>
               /\ calls' = [calls EXCEPT ![s] =
                               @ \o << <<"async_update_entry", pair[2]>>,
                                       <<"async_reload", pair[2]>> >>]
               /\ flow' = [flow EXCEPT ![s] = Await(@, "reauth_reload",
                                       [local EXCEPT !.i = pair[1], !.j = pair[2]])]

\* The loops of reauth_confirm, run from position (i, j) up to the next await
\* of async_reload (after async_update_entry of the matching entry) or, with no
\* match left, to the abort that ends the step.
ReauthLoop(s, local, i, j) ==
    LET pairs == MatchesFrom(local.students, local.existing_entries, i, j)
    IN IF pairs = {}
       THEN /\ flow' = [flow EXCEPT ![s] =
                           IF local.matching_entries
                           THEN async_abort(@, "reauth_successful")
                           ELSE async_abort(@, "no_matching_entries")]
            /\ UNCHANGED <<entries, calls, hass_data, setup>>
       ELSE LET pair == FirstPair(pairs)
                student == local.students[pair[1]]
            IN /\ entries' = [entries EXCEPT ![pair[2]] =
                                 [@ EXCEPT !.title = _format_student_name(student),
                                           !.data = [student_id |-> Str(student.id),
                                                     credential |-> model_dump(local.credential)]]]
               /\ UNCHANGED <<hass_data, setup>>
               /\ calls' = [calls EXCEPT ![s] =
                               @ \o << <<"async_update_entry", pair[2]>>,
                                       <<"async_reload", pair[2]>> >>]
               /\ flow' = [flow EXCEPT ![s] = Await(@, "reauth_reload",
                                       [local EXCEPT !.i = pair[1], !.j = pair[2]])]

\* get_students() returns or raises in reauth_confirm: the except clauses, or
\* the else branch from line 304.
ReauthGetStudentsReturn(s, r) ==
    /\ flow[s].pc = "reauth_get_students"
    /\ r \in DirectoryResults
    /\ IF ~r.ok
          THEN /\ flow' = [flow EXCEPT ![s] =
                              async_show_form(@, "reauth_confirm",
                                              Handler(ReauthExcept, r.exc).code)]
               /\ UNCHANGED <<entries, calls, hass_data, setup>>
          ELSE ReauthLoop(s, [flow[s].local EXCEPT !.students = r.students,
                                                   !.existing_entries = Len(entries),
                                                   !.matching_entries = FALSE], 1, 1)
    /\ UNCHANGED issued

\* async_reload returns: matching_entries = True, and the loops go on.
ReauthReloadReturn(s) ==
    /\ flow[s].pc = "reauth_reload"
    /\ ReauthLoop(s, [flow[s].local EXCEPT !.matching_entries = TRUE],
                  flow[s].local.i, flow[s].local.j + 1)
    /\ UNCHANGED issued

\* Mutant of NewSession: the later flow runs on the handler of the finished
\* one, with what that had stashed.
NewSessionKeepsStash(s) ==
    /\ flow[s].cur_step = "done"
    /\ flow' = [flow EXCEPT ![s] = [NewFlow EXCEPT !.credential = flow[s].credential,
                                                   !.students = flow[s].students,
                                                   !.has_students = flow[s].has_students]]
    /\ UNCHANGED <<hass_data, setup>>
    /\ calls' = [calls EXCEPT ![s] = <<>>]
    /\ UNCHANGED <<entries, issued>>

\* The flow manager discards a finished flow; a later flow is a new handler.
NewSession(s) ==
    /\ flow[s].cur_step = "done"
    /\ flow' = [flow EXCEPT ![s] = NewFlow]
    /\ UNCHANGED <<hass_data, setup>>
    /\ calls' = [calls EXCEPT ![s] = <<>>]
    /\ UNCHANGED <<entries, issued>>

Next ==
    \E s \in Sessions :
        \/ async_step_user(s)
        \/ AuthSubmit(s)
        \/ \E r \in IssuerResults : AuthRegisterReturn(s, r)
        \/ \E r \in DirectoryResults : AuthGetStudentsReturn(s, r)
        \/ AuthFinalize(s)
        \/ \E student_id \in {Str(n) : n \in Pupils} : SelectStudentSubmit(s, student_id)
        \/ SelectStudentFinalize(s)
        \/ SavedCredentialsSubmit(s)
        \/ \E r \in DirectoryResults : SavedCredentialsGetStudentsReturn(s, r)
        \/ SavedCredentialsFinalize(s)
        \/ AddNextSubmit(s)
        \/ \E r \in DirectoryResults : AddNextGetStudentsReturn(s, r)
        \/ AddNextFinalize(s)
        \/ async_step_reauth(s)
        \/ ReauthSubmit(s)
        \/ \E r \in IssuerResults : ReauthRegisterReturn(s, r)
        \/ \E r \in DirectoryResults : ReauthGetStudentsReturn(s, r)
        \/ ReauthReloadReturn(s)
        \/ NewSession(s)

Spec == Init /\ [][Next]_vars

\* The flows of a fresh installation that log in with a token, against a
\* directory that knows one student per credential: every title stored is
\* _format_student_name of a profile of NamedProfiles.
NameInit ==
    /\ entries = <<>> /\ issued = 0
    /\ flow = [s \in Sessions |-> NewFlow]
    /\ calls = [s \in Sessions |-> <<>>]
    /\ hass_data = NoHassData
    /\ setup = <<>>
NameNext ==
    \E s \in Sessions :
        \/ async_step_user(s)
        \/ AuthSubmit(s)
        \/ \E r \in IssuerResults : AuthRegisterReturn(s, r)
        \/ \E r \in NamedResults : AuthGetStudentsReturn(s, r)
        \/ AuthFinalize(s)
        \/ NewSession(s)
NameSpec == NameInit /\ [][NameNext]_vars

\* The flows that add a student with the stored credential of an installation
\* that has the earlier entry, against a directory that may still list its
\* pupil.
AddNextInit ==
    /\ entries = <<EarlierEntry>> /\ issued = 1
    /\ flow = [s \in Sessions |-> NewFlow]
    /\ calls = [s \in Sessions |-> <<>>]
    /\ hass_data = NoHassData
    /\ setup = <<>>
AddNextNext ==
    \E s \in Sessions :
        \/ async_step_user(s)
        \/ AddNextSubmit(s)
        \/ \E r \in DirectoryResults \cup LongResults : AddNextGetStudentsReturn(s, r)
        \/ AddNextFinalize(s)
        \/ \E student_id \in {Str(n) : n \in Pupils} : SelectStudentSubmit(s, student_id)
        \/ SelectStudentFinalize(s)
        \/ NewSession(s)
AddNextSpec == AddNextInit /\ [][AddNextNext]_vars

\* ------------------------------------------------- setup and unload of entries
\* What the directory can answer to select_student when an entry is set up.
\* aiohttp's ClientConnectorError is a subclass of ClientConnectionError; here
\* ClientConnectionError stands for a connection error that is not a
\* ClientConnectorError (a server that disconnects, a broken pipe).
SetupResults ==
    DirectoryResults \cup LongResults
    \cup {[ok |-> FALSE, exc |-> "ClientConnectorError", students |-> <<>>]}

\* The except clauses of async_setup_entry, in order.
SetupExcept ==
    << [types |-> {"CertificateNotFoundException"}, raises |-> "ConfigEntryAuthFailed"],
       [types |-> {"ValueError"}, raises |-> "ConfigEntryAuthFailed"],
       [types |-> {"FailedRequestException", "HttpUnsuccessfullStatusException"},
        raises |-> "ConfigEntryNotReady"],
       [types |-> {"ClientConnectorError"}, raises |-> "ConfigEntryNotReady"] >>

\* IrisClient.__init__: the client of a credential, no student selected.
NoAccount ==
    [id |-> -1, first_name |-> NoneName, second_name |-> NoneName, surname |-> NoneName]
IrisClient(credential) == [credential |-> credential, account |-> NoAccount]
NoClient == IrisClient(NoCred)

\* IrisClient.select_student, resumed with the answer r of get_students: the
\* first account whose str(pupil.id) is the student id becomes the client's
\* account; without one it raises ValueError.
select_student(client, student_id, r) ==
    IF ~r.ok
    THEN [exc |-> r.exc, client |-> client]
    ELSE LET found == {k \in DOMAIN r.students : Str(r.students[k].id) = student_id}
         IN IF found = {}
            THEN [exc |-> "ValueError", client |-> client]
            ELSE [exc |-> "none",
                  client |-> [client EXCEPT !.account =
                                 r.students[CHOOSE k \in found : \A m \in found : k <= m]]]

\* hass.data[DOMAIN][entry_id] = client, and hass.data[DOMAIN].pop(entry_id)
SetItem(clients, entry_id, client) ==
    [k \in DOMAIN clients \cup {entry_id} |-> IF k = entry_id THEN client ELSE clients[k]]
Pop(clients, entry_id) == [k \in DOMAIN clients \ {entry_id} |-> clients[k]]

\* What a call of async_setup_entry or async_unload_entry gave its caller.
NoOutcome == [call |-> "none", type |-> "none", value |-> "none"]
Returned(call, value) == [call |-> call, type |-> "return", value |-> value]
Raised(call, exc) == [call |-> call, type |-> "raise", value |-> exc]
NoSetup == [pc |-> "idle", client |-> NoClient, outcome |-> NoOutcome]

\* async_setup_entry up to the await of client.select_student (lines 38-42).
SetupStart(e) ==
    /\ setup[e].pc = "idle"
    /\ hass_data' = [hass_data EXCEPT !.domain = TRUE]
    /\ setup' = [setup EXCEPT ![e] =
                    [pc |-> "select_student",
                     client |-> IrisClient(model_validate(entries[e].data.credential)),
                     outcome |-> NoOutcome]]
    /\ UNCHANGED <<entries, flow, issued, calls>>

\* select_student returns or raises: the except clauses, or lines 55-63 up to
\* the await of async_forward_entry_setups.
SetupSelectStudentReturn(e, r) ==
    /\ setup[e].pc = "select_student"
    /\ r \in SetupResults
    /\ LET selected == select_student(setup[e].client, entries[e].data.student_id, r)
       IN IF selected.exc # "none"
          THEN /\ setup' = [setup EXCEPT ![e] =
                              [NoSetup EXCEPT !.outcome =
                                  Raised("async_setup_entry",
                                         IF Caught(SetupExcept, selected.exc)
                                         THEN Handler(SetupExcept, selected.exc).raises
                                         ELSE selected.exc)]]
               /\ UNCHANGED hass_data
          ELSE /\ hass_data' = [hass_data EXCEPT
                                   !.students_number = Len(entries),
                                   !.clients = SetItem(@, e, selected.client)]
               /\ setup' = [setup EXCEPT ![e] =
                              [pc |-> "forward_entry_setups", client |-> selected.client,
                               outcome |-> NoOutcome]]
    /\ UNCHANGED <<entries, flow, issued, calls>>

\* async_forward_entry_setups returns: async_setup_entry returns True.
SetupForwardReturn(e) ==
    /\ setup[e].pc = "forward_entry_setups"
    /\ setup' = [setup EXCEPT ![e] =
                    [NoSetup EXCEPT !.outcome = Returned("async_setup_entry", TRUE)]]
    /\ UNCHANGED <<entries, flow, issued, calls, hass_data>>

\* async_unload_entry up to the await of async_unload_platforms.
UnloadStart(e) ==
    /\ setup[e].pc = "idle"
    /\ setup' = [setup EXCEPT ![e] = [NoSetup EXCEPT !.pc = "unload_platforms"]]
    /\ UNCHANGED <<entries, flow, issued, calls, hass_data>>

\* Mutant of UnloadReturn: the client is removed whatever async_unload_platforms
\* returned.
UnloadReturnAlwaysPops(e, unload_ok) ==
    /\ setup[e].pc = "unload_platforms"
    /\ IF ~hass_data.domain \/ e \notin DOMAIN hass_data.clients
       THEN /\ setup' = [setup EXCEPT ![e] =
                           [NoSetup EXCEPT !.outcome = Raised("async_unload_entry", "KeyError")]]
            /\ UNCHANGED hass_data
       ELSE /\ hass_data' = [hass_data EXCEPT !.clients = Pop(@, e)]
            /\ setup' = [setup EXCEPT ![e] =
                           [NoSetup EXCEPT !.outcome = Returned("async_unload_entry", unload_ok)]]
    /\ UNCHANGED <<entries, flow, issued, calls>>

\* async_unload_platforms returns unload_ok: the client is popped when it is
\* true (KeyError without the DOMAIN key or the entry's key), and unload_ok is
\* returned.
UnloadReturn(e, unload_ok) ==
    /\ setup[e].pc = "unload_platforms"
    /\ IF ~unload_ok
       THEN /\ setup' = [setup EXCEPT ![e] =
                           [NoSetup EXCEPT !.outcome = Returned("async_unload_entry", FALSE)]]
            /\ UNCHANGED hass_data
       ELSE IF ~hass_data.domain \/ e \notin DOMAIN hass_data.clients
       THEN /\ setup' = [setup EXCEPT ![e] =
                           [NoSetup EXCEPT !.outcome = Raised("async_unload_entry", "KeyError")]]
            /\ UNCHANGED hass_data
       ELSE /\ hass_data' = [hass_data EXCEPT !.clients = Pop(@, e)]
            /\ setup' = [setup EXCEPT ![e] =
                           [NoSetup EXCEPT !.outcome = Returned("async_unload_entry", TRUE)]]
    /\ UNCHANGED <<entries, flow, issued, calls>>

\* Home Assistant setting up and unloading the entries of an installation that
\* has the earlier entry and one for pupil 1 with a later credential, in any
\* order and for both entries at once; no flow runs.
SetupEntries ==
    <<EarlierEntry,
      Entry(Str(1), <<"J", "a", "n", " ", "K", "o">>,
            [student_id |-> Str(1), credential |-> model_dump(2)])>>
SetupInit ==
    /\ entries = SetupEntries
    /\ issued = 2
    /\ flow = [s \in Sessions |-> NewFlow]
    /\ calls = [s \in Sessions |-> <<>>]
    /\ hass_data = NoHassData
    /\ setup = [e \in DOMAIN SetupEntries |-> NoSetup]
SetupNext ==
    \E e \in DOMAIN SetupEntries :
        \/ SetupStart(e)
        \/ \E r \in SetupResults : SetupSelectStudentReturn(e, r)
        \/ SetupForwardReturn(e)
        \/ UnloadStart(e)
        \/ \E unload_ok \in BOOLEAN : UnloadReturn(e, unload_ok)
SetupSpec == SetupInit /\ [][SetupNext]_vars

\* ------------------------------------------------------------- vocabulary
Created(s) == flow[s].result.type = "create_entry"
Aborted(s, reason) ==
    /\ flow[s].cur_step = "done"
    /\ flow[s].result.type = "abort"
    /\ flow[s].result.reason = reason

\* The awaits of async_set_unique_id a finalize is suspended at.
DirectFinalizePcs == {"auth_set_unique_id", "saved_set_unique_id", "next_set_unique_id"}
FinalizePcs == DirectFinalizePcs \cup {"select_student_set_unique_id"}

\* Session s is resumed by this step.
Resumes(s) == flow'[s] # flow[s]

HasEntry(student_id) == \E k \in DOMAIN entries : entries[k].data.student_id = student_id

\* ------------------------------------------------------------------- C1
\* C1: in every reachable state no two entries of the entry store have the
\* same student_id.
C1_OneEntryPerStudent ==
    \A a, b \in DOMAIN entries :
        a # b => entries[a].data.student_id # entries[b].data.student_id

\* Two entries exist, a duplicate was refused and a reauthentication went through.
C1_Witness ==
    /\ Len(entries) >= 2
    /\ \E s \in Sessions : Aborted(s, "already_configured")
    /\ \E s \in Sessions : Aborted(s, "reauth_successful")

\* ------------------------------------------------------------------- C2
\* Session s is suspended in a finalize for a student who had no entry when it
\* was suspended and has one now: another session's finalize ran in between.
Raced(s) ==
    /\ flow[s].pc \in FinalizePcs
    /\ ~flow[s].local.existing_entry
    /\ HasEntry(flow[s].unique_id)

NoTwoCreated ==
    \A s, t \in Sessions :
        (s # t /\ Created(s) /\ Created(t))
            => flow[s].result.data.student_id # flow[t].result.data.student_id

\* C2: of two sessions that run finalize concurrently for one student_id at
\* most one ends in Created: the one resumed after the other's entry was stored
\* aborts and stores nothing, and never do two sessions both hold Created for
\* the same student_id.
C2_AtMostOneCreated ==
    [][ /\ \A s \in Sessions :
              (Raced(s) /\ Resumes(s))
                  => /\ Aborted(s, "already_configured")'
                     /\ entries' = entries
        /\ NoTwoCreated' ]_vars

\* Both sessions were suspended in finalize for the same student; one has ended
\* in Created and the other is about to be resumed.
C2_Witness ==
    \E s, t \in Sessions :
        /\ s # t
        /\ Raced(s)
        /\ Created(t)
        /\ flow[t].result.data.student_id = flow[s].unique_id

\* ------------------------------------------------------------------- C3
\* The student_ids of the entries in existing_entries of add_next_config_entry.
SnapshotIds(s) ==
    {entries[k].data.student_id : k \in 1..flow[s].local.existing_entries}

\* After the step, s is suspended at the await of async_set_unique_id at `at`,
\* about to finalize profile P: no form of select_student was shown.
FinalizesDirectly(s, at, P) ==
    /\ flow'[s].pc = at
    /\ flow'[s].cur_step = flow[s].cur_step
    /\ flow'[s].cur_step # "select_student"
    /\ flow'[s].unique_id = Str(P.id)
    /\ flow'[s].local.students = <<P>>
    /\ flow'[s].local.credential = flow[s].local.credential
    /\ entries' = entries

\* The step ends in Created for profile P with the credential given, and the
\* entry is stored.
CreatedFor(s, P, credential) ==
    /\ flow'[s].cur_step = "done"
    /\ flow'[s].result.type = "create_entry"
    /\ flow'[s].result.title = _format_student_name(P)
    /\ flow'[s].result.data = [student_id |-> Str(P.id), credential |-> model_dump(credential)]
    /\ entries' = Append(entries, [unique_id |-> Str(P.id),
                                   title |-> flow'[s].result.title,
                                   data |-> flow'[s].result.data])

OneProfile(r) == r.ok /\ Len(r.students) = 1

\* C3 (as amended): with exactly one profile P returned, auth, add_next_entry
\* (saved credentials, one stored entry) and select_saved_credentials go
\* straight to finalize, never to select_student; the finalize ends in Created
\* with title = formatted name of P and student_id = P.id when P.id has no
\* entry, and aborts storing nothing when it has one (add_next_entry already
\* aborts with all_student_already_configured when P is in its entry list).
C3_SingleProfileFinalizes ==
    [][\A s \in Sessions :
        /\ \A r \in DirectoryResults :
              OneProfile(r) =>
                 /\ AuthGetStudentsReturn(s, r)
                       => FinalizesDirectly(s, "auth_set_unique_id", r.students[1])
                 /\ SavedCredentialsGetStudentsReturn(s, r)
                       => FinalizesDirectly(s, "saved_set_unique_id", r.students[1])
                 /\ AddNextGetStudentsReturn(s, r)
                       => IF Str(r.students[1].id) \in SnapshotIds(s)
                          THEN /\ Aborted(s, "all_student_already_configured")'
                               /\ entries' = entries
                          ELSE FinalizesDirectly(s, "next_set_unique_id", r.students[1])
        /\ (flow[s].pc \in DirectFinalizePcs /\ Resumes(s))
              => IF HasEntry(flow[s].unique_id)
                 THEN Aborted(s, "already_configured")' /\ entries' = entries
                 ELSE CreatedFor(s, flow[s].local.students[1], flow[s].local.credential)
      ]_vars

\* Each of the three steps has ended in Created right after its directory call.
C3_Witness ==
    /\ Len(entries) >= 2
    /\ \E s \in Sessions :
          /\ Created(s)
          /\ flow[s].students = <<>>
          /\ flow[s].result.title = entries[Len(entries)].title
          /\ flow[s].result.data = entries[Len(entries)].data

\* C3 as stated: a single returned profile always ends in Created.
C3_Original ==
    [][\A s \in Sessions :
        /\ \A r \in DirectoryResults :
              (OneProfile(r) /\ AddNextGetStudentsReturn(s, r))
                  => FinalizesDirectly(s, "next_set_unique_id", r.students[1])
        /\ (flow[s].pc \in DirectFinalizePcs /\ Resumes(s))
              => CreatedFor(s, flow[s].local.students[1], flow[s].local.credential)
      ]_vars

\* ------------------------------------------------------------------- C4
\* After the step, s is shown the form of select_student with the list and the
\* credential stashed in its session state.
SelectShown(s, students, credential) ==
    /\ flow'[s].cur_step = "select_student"
    /\ flow'[s].pc = "idle"
    /\ flow'[s].result.type = "form"
    /\ flow'[s].result.step_id = "select_student"
    /\ flow'[s].students = students
    /\ flow'[s].credential = credential
    /\ entries' = entries

\* The returned profiles that have no entry in existing_entries of s.
Remaining(s, students) ==
    LET unconfigured(P) == Str(P.id) \notin SnapshotIds(s)
    IN SelectSeq(students, unconfigured)

\* The stashed profile whose id session s has chosen.
Chosen(s) ==
    CHOOSE P \in {flow[s].students[k] : k \in DOMAIN flow[s].students} :
        Str(P.id) = flow[s].unique_id

SeveralProfiles(r) == r.ok /\ Len(r.students) > 1

\* C4 (as amended): with n > 1 profiles returned, auth and
\* select_saved_credentials stash all of them with the credential and show
\* select_student, and add_next_entry does so with the profiles that have no
\* entry when more than one of them remains; every stashed Pi can be submitted,
\* and submitting it finalizes with that profile's data: Created with title =
\* formatted name of Pi, student_id = Pi.id and the stashed credential when
\* Pi.id has no entry, an abort that stores nothing when it has one.
C4_SelectStudent ==
    /\ [](\A s \in Sessions :
            (flow[s].cur_step = "select_student" /\ flow[s].pc = "idle")
                => \A k \in DOMAIN flow[s].students :
                       ENABLED SelectStudentSubmit(s, Str(flow[s].students[k].id)))
    /\ [][\A s \in Sessions :
            /\ \A r \in DirectoryResults :
                  SeveralProfiles(r) =>
                     /\ AuthGetStudentsReturn(s, r)
                           => SelectShown(s, r.students, flow[s].local.credential)
                     /\ SavedCredentialsGetStudentsReturn(s, r)
                           => SelectShown(s, r.students, flow[s].local.credential)
                     /\ (AddNextGetStudentsReturn(s, r) /\ Len(Remaining(s, r.students)) > 1)
                           => SelectShown(s, Remaining(s, r.students),
                                          flow[s].local.credential)
            /\ \A student_id \in {Str(n) : n \in Pupils} :
                  SelectStudentSubmit(s, student_id)
                     => /\ flow'[s].pc = "select_student_set_unique_id"
                        /\ flow'[s].unique_id = student_id
                        /\ flow'[s].students = flow[s].students
                        /\ flow'[s].credential = flow[s].credential
                        /\ entries' = entries
            /\ (flow[s].pc = "select_student_set_unique_id" /\ Resumes(s))
                  => IF HasEntry(flow[s].unique_id)
                     THEN Aborted(s, "already_configured")' /\ entries' = entries
                     ELSE CreatedFor(s, Chosen(s), flow[s].credential)
          ]_vars

\* The second of two stashed profiles was chosen and created with the stashed
\* credential.
C4_Witness ==
    \E s \in Sessions :
        /\ Created(s)
        /\ Len(flow[s].students) = 2
        /\ flow[s].result.data.student_id = Str(flow[s].students[2].id)
        /\ flow[s].result.title = _format_student_name(flow[s].students[2])
        /\ flow[s].result.data.credential = model_dump(flow[s].credential)

\* C4 as stated: every list of n > 1 returned profiles leads to select_student,
\* and the chosen profile is created.
C4_Original ==
    [][\A s \in Sessions :
        /\ \A r \in DirectoryResults :
              SeveralProfiles(r) =>
                 /\ AuthGetStudentsReturn(s, r)
                       => SelectShown(s, r.students, flow[s].local.credential)
                 /\ SavedCredentialsGetStudentsReturn(s, r)
                       => SelectShown(s, r.students, flow[s].local.credential)
                 /\ AddNextGetStudentsReturn(s, r)
                       => flow'[s].cur_step = "select_student"
        /\ (flow[s].pc = "select_student_set_unique_id" /\ Resumes(s))
              => CreatedFor(s, Chosen(s), flow[s].credential)
      ]_vars

\* ------------------------------------------------------------------- C5
\* C5: a finalize (of auth, add_next_entry, select_saved_credentials or
\* select_student) that is resumed for a student_id that has an entry ends the
\* flow in an abort, shows no form, and leaves every entry as it was.
C5_DuplicateAborts ==
    [][\A s \in Sessions :
        (flow[s].pc \in FinalizePcs /\ Resumes(s) /\ HasEntry(flow[s].unique_id))
            => /\ flow'[s].cur_step = "done"
               /\ flow'[s].result.type = "abort"
               /\ entries' = entries
      ]_vars

\* A finalize was refused for a student whose entry another flow had created.
C5_Witness ==
    \E s, t \in Sessions :
        /\ s # t
        /\ Aborted(s, "already_configured")
        /\ Created(t)
        /\ flow[t].result.data.student_id = flow[s].unique_id
        /\ HasEntry(flow[s].unique_id)

\* ------------------------------------------------------------------- C6
\* Every returned profile has an entry among existing_entries of s.
FullyOverlapping(s, r) ==
    r.ok /\ \A k \in DOMAIN r.students : Str(r.students[k].id) \in SnapshotIds(s)

MatchingEntries(students) ==
    {k \in DOMAIN entries :
        \E m \in DOMAIN students : Str(students[m].id) = entries[k].data.student_id}

\* C7: when register() and get_students() succeed in reauth_confirm and no
\* returned profile id is the student_id of an entry, the step ends in Aborted
\* with reason no_matching_entries; no entry is updated, reloaded or created.
C7_NoMatchAborts ==
    [][\A s \in Sessions : \A r \in DirectoryResults :
        (ReauthGetStudentsReturn(s, r) /\ r.ok /\ MatchingEntries(r.students) = {})
            => /\ Aborted(s, "no_matching_entries")'
               /\ entries' = entries
               /\ UNCHANGED <<hass_data, setup>>
               /\ calls' = calls
               /\ calls[s] = <<>>
      ]_vars

\* A reauthentication ended with no_matching_entries although entries exist
\* and a credential was issued for it.
C7_Witness ==
    \E s \in Sessions :
        /\ Aborted(s, "no_matching_entries")
        /\ calls[s] = <<>>
        /\ Len(entries) >= 2
        /\ issued = MaxCred

\* ------------------------------------------------------------------- C8
\* The entries session s has updated so far, and those it has reloaded.
UpdatedBy(s) ==
    {calls[s][n][2] : n \in {m \in DOMAIN calls[s] : calls[s][m][1] = "async_update_entry"}}
ReloadedBy(s) ==
    {calls[s][n][2] : n \in {m \in DOMAIN calls[s] : calls[s][m][1] = "async_reload"}}

\* The returned profile that has the student_id of entry k.
ProfileOf(students, k) ==
    students[CHOOSE m \in DOMAIN students : Str(students[m].id) = entries[k].data.student_id]

ReauthPcs == {"reauth_get_students", "reauth_reload"}

ReturnsResult(s) ==
    \/ flow'[s].result.type = "form" /\ flow'[s].result.errors # "none"
    \/ flow'[s].cur_step = "done" /\ flow'[s].result.type \in {"abort", "create_entry"}

\* C9: whatever failure the Issuer or the Directory raises in auth,
\* add_next_entry, select_saved_credentials or reauth_confirm, the step returns
\* a re-prompt with an error code or a terminal outcome; no failure propagates
\* out of the step.
C9_NoFailurePropagates ==
    [][\A s \in Sessions :
        /\ \A r \in IssuerResults :
              (~r.ok /\ (AuthRegisterReturn(s, r) \/ ReauthRegisterReturn(s, r)))
                  => ReturnsResult(s)
        /\ \A r \in DirectoryResults :
              (~r.ok /\ (\/ AuthGetStudentsReturn(s, r)
                         \/ SavedCredentialsGetStudentsReturn(s, r)
                         \/ AddNextGetStudentsReturn(s, r)
                         \/ ReauthGetStudentsReturn(s, r)))
                  => ReturnsResult(s)
      ]_vars

\* ------------------------------------------------------------------- C10
\* The error code the claim fixes for each kind of Issuer failure.
IssuerCode ==
    [exc \in {"MissingUnitSymbolException", "WrongTokenException", "UsedTokenException",
              "WrongPINException", "ExpiredTokenException"} |->
        CASE exc = "MissingUnitSymbolException" -> "invalid_symbol"
          [] exc \in {"WrongTokenException", "UsedTokenException"} -> "invalid_token"
          [] exc = "WrongPINException" -> "invalid_pin"
          [] exc = "ExpiredTokenException" -> "expired_token"]

\* After the step, s is shown the form of `step` again with error `code`.
ReAsked(s, step, code) ==
    /\ flow'[s].cur_step = step
    /\ flow'[s].pc = "idle"
    /\ flow'[s].result.type = "form"
    /\ flow'[s].result.step_id = step
    /\ flow'[s].result.errors = code
    /\ entries' = entries

\* C10: in auth and in reauth_confirm a failure of register() is answered by
\* the form of the same step with the code of its kind: invalid_symbol,
\* invalid_token (wrong or used token), invalid_pin, expired_token; an expired
\* token is never reported as unknown.
C10_IssuerFailureCodes ==
    [][\A s \in Sessions : \A r \in IssuerResults :
        r.exc \in DOMAIN IssuerCode =>
            /\ AuthRegisterReturn(s, r) => ReAsked(s, "auth", IssuerCode[r.exc])
            /\ ReauthRegisterReturn(s, r) => ReAsked(s, "reauth_confirm", IssuerCode[r.exc])
      ]_vars

\* One flow is asked again in auth and another in reauth_confirm, both with
\* expired_token.
C10_Witness ==
    \E s, t \in Sessions :
        /\ flow[s].cur_step = "auth"
        /\ flow[s].result.type = "form"
        /\ flow[s].result.errors = "expired_token"
        /\ flow[t].cur_step = "reauth_confirm"
        /\ flow[t].result.type = "form"
        /\ flow[t].result.errors = "expired_token"

\* ------------------------------------------------------------------- C11
\* The awaits of the Issuer and of the Directory a step is suspended at.
CollaboratorPcs ==
    {"auth_register", "auth_get_students", "saved_get_students", "next_get_students",
     "reauth_register", "reauth_get_students"}

\* After the step, s is asked again with an error code.
ErrorPrompt(s) ==
    /\ flow'[s].pc = "idle"
    /\ flow'[s].result.type = "form"
    /\ flow'[s].result.errors # "none"

\* The step of s leaves the entry store and the stash of s as they were.
NothingCommitted(s) ==
    /\ entries' = entries
    /\ flow'[s].credential = flow[s].credential
    /\ flow'[s].students = flow[s].students
    /\ flow'[s].has_students = flow[s].has_students

\* C11: a step invocation that ends in a re-prompt with an error code leaves
\* the entry store unchanged and the stashed credential and student list as
\* they were: neither the part of the invocation up to an await of a
\* collaborator nor the part that returns the re-prompt changes them.
C11_ErrorPromptCommitsNothing ==
    [][\A s \in Sessions :
        (Resumes(s) /\ (ErrorPrompt(s) \/ flow'[s].pc \in CollaboratorPcs))
            => NothingCommitted(s)
      ]_vars

\* One flow is asked again after a connection error in select_saved_credentials
\* while the other holds a stash in select_student.
C11_Witness ==
    \E s, t \in Sessions :
        /\ flow[s].cur_step = "select_saved_credentials"
        /\ flow[s].result.type = "form"
        /\ flow[s].result.errors = "cannot_connect"
        /\ flow[s].credential = NoCred
        /\ flow[t].cur_step = "select_student"
        /\ flow[t].credential # NoCred

C13_StartRoutes ==
    [][\A s \in Sessions :
        async_step_user(s)
            => /\ flow'[s].cur_step =
                     (IF Len(entries) = 0 THEN "auth" ELSE "add_next_config_entry")
               /\ flow'[s].result.type = "form"
               /\ flow'[s].result.step_id = flow'[s].cur_step
               /\ flow'[s].result.errors = "none"
               /\ flow'[s].pc = "idle"
               /\ NothingCommitted(s)
               /\ issued' = issued
               /\ UNCHANGED <<hass_data, setup>>
               /\ calls' = calls
      ]_vars

\* A flow started with no entry stands at auth, one started later, with an
\* entry, at add_next_entry.
C13_Witness ==
    \E s, t \in Sessions :
        /\ flow[s].cur_step = "auth"
        /\ flow[s].result.errors = "none"
        /\ flow[t].cur_step = "add_next_config_entry"
        /\ flow[t].result.type = "form"
        /\ flow[t].result.errors = "none"
        /\ Len(entries) = 1
        /\ entries[1] # EarlierEntry

\* ------------------------------------------------------------------- C14
ConnectionErrors ==
    {"FailedRequestException", "HttpUnsuccessfullStatusException", "ClientConnectionError"}

\* C14: in select_saved_credentials a directory failure for a credential that
\* is no longer valid (CertificateNotFoundException) leads to the form of auth
\* with expired_credentials; a connection failure shows select_saved_credentials
\* again with cannot_connect and does not move the flow to auth.
C14_SavedCredentialsFailures ==
    [][\A s \in Sessions : \A r \in DirectoryResults :
        SavedCredentialsGetStudentsReturn(s, r) =>
            /\ r.exc = "CertificateNotFoundException"
                  => ReAsked(s, "auth", "expired_credentials")
            /\ r.exc \in ConnectionErrors
                  => ReAsked(s, "select_saved_credentials", "cannot_connect")
      ]_vars

\* One flow was sent to auth with expired_credentials, the other stayed in
\* select_saved_credentials with cannot_connect.
C14_Witness ==
    \E s, t \in Sessions :
        /\ flow[s].cur_step = "auth"
        /\ flow[s].result.errors = "expired_credentials"
        /\ Len(entries) >= 2
        /\ flow[t].cur_step = "select_saved_credentials"
        /\ flow[t].result.errors = "cannot_connect"

\* ------------------------------------------------------------------- C15
\* A middle name that is absent, empty or made of spaces only.
Blank(name) == name = NoneName \/ \A k \in DOMAIN name : name[k] = " "

\* The display name the claim describes.
ClaimedName(P) ==
    P.first_name
    \o (IF Blank(P.second_name) THEN <<>> ELSE <<" ">> \o P.second_name)
    \o <<" ">> \o P.surname

NoDoubleSpace(name) ==
    \A k \in 1..(Len(name) - 1) : ~(name[k] = " " /\ name[k + 1] = " ")

\* C15: the display name is first name, middle name and surname joined by
\* single spaces, an absent, empty or blank middle name being left out, so it
\* never holds two consecutive spaces; stated of the title each finalize of
\* auth gives the entry of the one profile the directory returned.
C15_DisplayName ==
    [][\A s \in Sessions :
        (flow[s].pc = "auth_set_unique_id" /\ Resumes(s) /\ Created(s)')
            => /\ flow'[s].result.title = ClaimedName(flow[s].local.students[1])
               /\ NoDoubleSpace(flow'[s].result.title)
      ]_vars

\* ------------------------------------------------------------------- C16
\* C16: add_next_entry with input goes to auth when use_saved_credentials is
\* false; otherwise, with more than one stored entry, to
\* select_saved_credentials with no call of the directory; otherwise, with
\* exactly one stored entry, it calls the directory with the credential stored
\* in that entry.
C16_AddNextRoutes ==
    [][\A s \in Sessions : \A use_saved_credentials \in BOOLEAN :
        AddNextInput(s, use_saved_credentials) =>
            /\ ~use_saved_credentials => ReAsked(s, "auth", "none")
            /\ (use_saved_credentials /\ Len(entries) > 1)
                  => ReAsked(s, "select_saved_credentials", "none")
            /\ (use_saved_credentials /\ Len(entries) = 1)
                  => /\ flow'[s].pc = "next_get_students"
                     /\ model_dump(flow'[s].local.credential) = entries[1].data.credential
                     /\ flow'[s].cur_step = "add_next_config_entry"
                     /\ entries' = entries
      ]_vars

\* One flow was sent on to select_saved_credentials while the other, which
\* answered when there was one entry only, still awaits the directory.
C16_Witness ==
    \E s, t \in Sessions :
        /\ flow[s].cur_step = "select_saved_credentials"
        /\ flow[s].result.type = "form"
        /\ flow[s].result.errors = "none"
        /\ flow[t].pc = "next_get_students"
        /\ flow[t].local.existing_entries = 1
        /\ Len(entries) > 1

\* ------------------------------------------------------------------- C17
\* The keys the form of select_student offers.
Selectable(students) == DOMAIN StudentsDict(students)

\* C17: on the path of add_next_entry with the one stored credential, the
\* candidates are exactly the returned profiles whose student_id had no entry
\* when the step began: one candidate is finalized directly, several are
\* stashed for select_student, where only they can be selected.
C17_AddNextCandidates ==
    [][\A s \in Sessions : \A r \in DirectoryResults \cup LongResults :
        (AddNextGetStudentsReturn(s, r) /\ r.ok) =>
            LET candidates == Remaining(s, r.students)
            IN /\ Len(candidates) = 1
                     => /\ FinalizesDirectly(s, "next_set_unique_id", candidates[1])
                        /\ flow'[s].local.students = candidates
               /\ Len(candidates) > 1
                     => /\ flow'[s].cur_step = "select_student"
                        /\ flow'[s].students = candidates
                        /\ Selectable(flow'[s].students) =
                              {Str(candidates[k].id) : k \in DOMAIN candidates}
                        /\ Selectable(flow'[s].students) \cap SnapshotIds(s) = {}
      ]_vars

\* One flow of add_next_entry is finalizing the one candidate it has, the
\* other offers its two candidates; none of them has an entry, the pupil of
\* the stored entry is not among them.
C17_Witness ==
    \E s, t \in Sessions :
        /\ flow[s].pc = "next_set_unique_id"
        /\ Len(flow[s].local.students) = 1
        /\ ~HasEntry(Str(flow[s].local.students[1].id))
        /\ HasEntry(Str(EarlierProfile.id))
        /\ flow[t].cur_step = "select_student"
        /\ flow[t].result.type = "form"
        /\ Len(flow[t].students) = 2
        /\ \A k \in DOMAIN flow[t].students : ~HasEntry(Str(flow[t].students[k].id))

\* ------------------------------------------------------------------- C18
\* C18: select_saved_credentials does not filter: with more than one returned
\* profile it stashes the whole directory answer, so a student that has an
\* entry can be selected in select_student; selecting it ends in an abort that
\* creates no entry and changes none.
C18_SavedCredentialsUnfiltered ==
    /\ [](\A s \in Sessions :
            (flow[s].cur_step = "select_student" /\ flow[s].pc = "idle")
                => \A k \in DOMAIN flow[s].students :
                      HasEntry(Str(flow[s].students[k].id))
                         => ENABLED SelectStudentSubmit(s, Str(flow[s].students[k].id)))
    /\ [][\A s \in Sessions :
            /\ \A r \in DirectoryResults :
                  (/\ SavedCredentialsGetStudentsReturn(s, r)
                   /\ SeveralProfiles(r)
                   /\ \E k \in DOMAIN r.students : HasEntry(Str(r.students[k].id)))
                      => /\ flow'[s].students = r.students
                         /\ flow'[s].cur_step = "select_student"
            /\ (SelectStudentFinalize(s) /\ HasEntry(flow[s].local.student_id))
                  => /\ flow'[s].result.type = "abort"
                     /\ flow'[s].cur_step = "done"
                     /\ entries' = entries
          ]_vars

\* A flow that reused a stored credential chose, of the two students offered,
\* one that has an entry, and was aborted; both offered students have entries
\* with that credential.
C18_Witness ==
    \E s \in Sessions :
        /\ Aborted(s, "already_configured")
        /\ Len(flow[s].students) = 2
        /\ \A k \in DOMAIN flow[s].students : HasEntry(Str(flow[s].students[k].id))
        /\ \A k \in DOMAIN entries : entries[k].data.credential = model_dump(flow[s].credential)
        /\ Len(entries) = 3

\* ------------------------------------------------------------------- C19
\* A step of one of the onboarding steps of s, and a step of its
\* reauthentication.
OnboardingStep(s) ==
    \/ async_step_user(s)
    \/ AuthSubmit(s)
    \/ \E r \in IssuerResults : AuthRegisterReturn(s, r)
    \/ \E r \in DirectoryResults : AuthGetStudentsReturn(s, r)
    \/ AuthFinalize(s)
    \/ \E student_id \in {Str(n) : n \in Pupils} : SelectStudentSubmit(s, student_id)
    \/ SelectStudentFinalize(s)
    \/ SavedCredentialsSubmit(s)
    \/ \E r \in DirectoryResults : SavedCredentialsGetStudentsReturn(s, r)
    \/ SavedCredentialsFinalize(s)
    \/ AddNextSubmit(s)
    \/ \E r \in DirectoryResults : AddNextGetStudentsReturn(s, r)
    \/ AddNextFinalize(s)
ReauthStep(s) ==
    \/ async_step_reauth(s)
    \/ ReauthSubmit(s)
    \/ \E r \in IssuerResults : ReauthRegisterReturn(s, r)
    \/ \E r \in DirectoryResults : ReauthGetStudentsReturn(s, r)
    \/ ReauthReloadReturn(s)

\* C19: no onboarding step updates or removes an entry that exists; only
\* reauth_confirm modifies existing entries, and it adds none, removes none
\* and changes no entry's student_id.
C19_EntriesFrame ==
    [][/\ \A s \in Sessions :
            /\ OnboardingStep(s)
                  => /\ Len(entries') >= Len(entries)
                     /\ \A k \in DOMAIN entries : entries'[k] = entries[k]
            /\ ReauthStep(s)
                  => /\ Len(entries') = Len(entries)
                     /\ \A k \in DOMAIN entries :
                           /\ entries'[k].data.student_id = entries[k].data.student_id
                           /\ entries'[k].unique_id = entries[k].unique_id
       /\ (\E k \in DOMAIN entries : k \notin DOMAIN entries' \/ entries'[k] # entries[k])
             => \E s \in Sessions : ReauthStep(s)
      ]_vars

\* A reauthentication has rewritten the entry that onboarding created as the
\* second one, with a credential issued later, next to the untouched first.
C19_Witness ==
    \E s \in Sessions :
        /\ UpdatedBy(s) = {2}
        /\ Len(entries) = 2
        /\ entries[1] = EarlierEntry
        /\ entries[2].data.credential = model_dump(MaxCred)
        /\ entries[2].data.student_id = entries[2].unique_id

\* ------------------------------------------------------------------- C20
\* C20: in auth and in reauth_confirm the directory is called only when the
\* call of the issuer has returned a credential, and not when it failed; no
\* step of the invocation changes the entry store before both calls have
\* succeeded; and while a call of a session is in flight the session starts no
\* other call.
C20_CallsInSequence ==
    /\ [](\A s \in Sessions :
            flow[s].pc \in CollaboratorPcs
                => ~ENABLED (\/ AuthSubmit(s) \/ ReauthSubmit(s)
                             \/ SavedCredentialsSubmit(s) \/ AddNextSubmit(s)))
    /\ [][\A s \in Sessions :
            /\ (flow'[s].pc = "auth_get_students" /\ Resumes(s))
                  => /\ flow[s].pc = "auth_register"
                     /\ issued' = issued + 1
                     /\ flow'[s].local.credential = issued'
            /\ (flow'[s].pc = "reauth_get_students" /\ Resumes(s))
                  => /\ flow[s].pc = "reauth_register"
                     /\ issued' = issued + 1
                     /\ flow'[s].local.credential = issued'
            /\ \A r \in IssuerResults :
                  (~r.ok /\ (AuthRegisterReturn(s, r) \/ ReauthRegisterReturn(s, r)))
                      => /\ flow'[s].pc = "idle"
                         /\ entries' = entries
                         /\ issued' = issued
            /\ \A r \in DirectoryResults :
                  (~r.ok /\ (AuthGetStudentsReturn(s, r) \/ ReauthGetStudentsReturn(s, r)))
                      => flow'[s].pc = "idle" /\ entries' = entries
            /\ (Resumes(s) /\ flow[s].cur_step \in {"auth", "reauth_confirm"}
                           /\ flow[s].pc \in {"idle", "auth_register", "reauth_register"})
                  => entries' = entries /\ calls' = calls
          ]_vars

\* The issuer has answered one flow, whose call of the directory is in flight,
\* and has refused the other, which is asked again with no call in flight.
C20_Witness ==
    \E s, t \in Sessions :
        /\ flow[s].pc = "reauth_get_students"
        /\ flow[s].local.credential = issued
        /\ flow[t].cur_step = "auth"
        /\ flow[t].pc = "idle"
        /\ flow[t].result.errors = "invalid_pin"

\* ------------------------------------------------------------------- C21
IssuerPcs == {"auth_register", "reauth_register"}
DirectoryPcs == CollaboratorPcs \ IssuerPcs

\* C21: a call of a collaborator is started only by the part of a step that
\* handles the caller's input (the issuer's call, or the directory's call of
\* the saved-credential steps) or, for the directory in auth and
\* reauth_confirm, by the return of the issuer's call of the same invocation;
\* the return of a directory call starts no further call, and a failed call
\* leaves the session with no call in flight, whichever form is shown next:
\* one invocation makes at most one call of each collaborator and retries
\* nothing.
C21_NoRetry ==
    [][\A s \in Sessions :
        /\ (Resumes(s) /\ flow'[s].pc \in IssuerPcs)
              => flow[s].pc = "idle"
        /\ (Resumes(s) /\ flow'[s].pc \in DirectoryPcs)
              => flow[s].pc = "idle" \/ flow[s].pc \in IssuerPcs
        /\ (Resumes(s) /\ flow[s].pc \in DirectoryPcs)
              => flow'[s].pc \notin CollaboratorPcs
        /\ \A r \in IssuerResults :
              (~r.ok /\ (AuthRegisterReturn(s, r) \/ ReauthRegisterReturn(s, r)))
                  => flow'[s].pc = "idle"
        /\ \A r \in DirectoryResults :
              (~r.ok /\ (\/ AuthGetStudentsReturn(s, r)
                         \/ SavedCredentialsGetStudentsReturn(s, r)
                         \/ AddNextGetStudentsReturn(s, r)
                         \/ ReauthGetStudentsReturn(s, r)))
                  => flow'[s].pc = "idle"
      ]_vars

\* After a failed directory call one flow stands at select_saved_credentials
\* again and the other has fallen back to auth, both with no call in flight.
C21_Witness ==
    \E s, t \in Sessions :
        /\ flow[s].cur_step = "select_saved_credentials"
        /\ flow[s].result.errors = "cannot_connect"
        /\ flow[s].pc = "idle"
        /\ flow[t].cur_step = "auth"
        /\ flow[t].result.errors = "unknown"
        /\ flow[t].pc = "idle"
        /\ issued = 1

\* ------------------------------------------------------------------- C22
\* C22: whenever reauth_confirm suspends at a reload, it has just overwritten
\* title and payload of one entry that matches a returned profile and then
\* requested the reload of that same entry, which it had not reloaded before;
\* its calls are pairs of an update and the reload of the same entry; and it
\* returns its abort only when every matching entry has been processed.
C22_UpdateThenReload ==
    [][\A s \in Sessions :
        /\ (Resumes(s) /\ flow'[s].pc = "reauth_reload")
              => LET k == flow'[s].local.j
                     P == flow'[s].local.students[flow'[s].local.i]
                 IN /\ Str(P.id) = entries[k].data.student_id
                    /\ entries'[k].title = _format_student_name(P)
                    /\ entries'[k].data = [student_id |-> Str(P.id),
                                           credential |-> model_dump(flow'[s].local.credential)]
                    /\ calls'[s] = calls[s] \o << <<"async_update_entry", k>>,
                                                  <<"async_reload", k>> >>
                    /\ k \notin ReloadedBy(s)
        /\ (Resumes(s) /\ flow'[s].pc # "reauth_reload") => calls'[s] \in {calls[s], <<>>}
        /\ (flow[s].pc = "reauth_reload" /\ Resumes(s) /\ flow'[s].result.type = "abort")
              => ReloadedBy(s) = MatchingEntries(flow[s].local.students)
                                    \cap (1..flow[s].local.existing_entries)
        /\ \A r \in DirectoryResults :
              (ReauthGetStudentsReturn(s, r) /\ flow'[s].result.type = "abort")
                  => MatchingEntries(r.students) = {} /\ ReloadedBy(s) = {}
      ]_vars

\* A reauthentication has updated and reloaded two entries, one after the
\* other, and is suspended at the second reload.
C22_Witness ==
    \E s \in Sessions :
        /\ flow[s].pc = "reauth_reload"
        /\ Len(calls[s]) = 4
        /\ calls[s][1][2] # calls[s][3][2]
        /\ calls[s][3] = <<"async_update_entry", flow[s].local.j>>
        /\ calls[s][4] = <<"async_reload", flow[s].local.j>>

Terminal(s) == flow[s].result.type \in {"create_entry", "abort"}

KnownProfiles == Profiles \cup {EarlierProfile}

\* C25: in every reachable state each entry's student_id is its unique id, and
\* its title is the formatted name of a profile with that id that the
\* directory returns.
C25_EntryLayout ==
    \A k \in DOMAIN entries :
        /\ entries[k].data.student_id = entries[k].unique_id
        /\ \E P \in KnownProfiles :
              /\ Str(P.id) = entries[k].data.student_id
              /\ entries[k].title = _format_student_name(P)

\* Three entries: the earlier one, one created in select_student for the
\* second of the students offered, and one that a reauthentication has given
\* the name with the second name.
C25_Witness ==
    \E s, t \in Sessions :
        /\ Len(entries) = 3
        /\ Created(s)
        /\ Len(flow[s].students) = 2
        /\ flow[s].result.data.student_id = Str(flow[s].students[2].id)
        /\ UpdatedBy(t) # {}
        /\ \E k \in UpdatedBy(t) :
              /\ entries[k].title = FirstNames[1] \o <<" ", "M", " ">> \o Surname
              /\ entries[k].data.credential = model_dump(MaxCred)

\* ------------------------------------------------------------------- C26
\* C26, in what it says of every single state: with collaborators that do not
\* fail, a flow is never left at a form for which no valid input exists (the
\* form of select_student offers a student), and no step ends by raising
\* instead of returning a form or a terminal outcome; without that no sequence
\* of valid inputs can bring every flow to a terminal outcome.
C26_AlwaysAValidInput ==
    \A s \in Sessions :
        /\ (flow[s].cur_step = "select_student" /\ flow[s].result.type = "form")
              => Selectable(flow[s].students) # {}
        /\ flow[s].result.type = "raised" => flow[s].result.reason \in Exceptions

\* ------------------------------------------------------------------- C27
EmptyAnswer == [ok |-> TRUE, exc |-> "none", students |-> <<>>]

\* C27: when the directory answers with an empty list, auth, add_next_entry
\* and select_saved_credentials create no entry and return a form or a
\* terminal outcome to the caller.
C27_EmptyAnswerHandled ==
    [][\A s \in Sessions :
        (\/ AuthGetStudentsReturn(s, EmptyAnswer)
         \/ AddNextGetStudentsReturn(s, EmptyAnswer)
         \/ SavedCredentialsGetStudentsReturn(s, EmptyAnswer))
            => /\ entries' = entries
               /\ flow'[s].pc = "idle"
               /\ flow'[s].result.type \in {"form", "abort"}
      ]_vars

\* ------------------------------------------------------------------- C28
\* C28: a session at select_student holds a credential and a list of at least
\* two profiles; select_student creates an entry only with a credential
\* stashed and otherwise shows its form again, the entry store untouched.
C28_SelectStudentState ==
    /\ [](\A s \in Sessions :
            flow[s].cur_step = "select_student"
                => /\ flow[s].credential # NoCred
                   /\ flow[s].has_students
                   /\ Len(flow[s].students) >= 2)
    /\ [][\A s \in Sessions : \A student_id \in {Str(n) : n \in Pupils} :
            SelectStudentSubmit(s, student_id)
                => /\ entries' = entries
                   /\ flow[s].credential = NoCred
                         => flow'[s].result.type = "form" /\ flow'[s].pc = "idle"
          ]_vars

\* ------------------------------------------------------------------- C29
\* The ids of the profiles of a list.
IdsOf(students) == {Str(students[k].id) : k \in DOMAIN students}

\* C29: the directory is asked with the credential just issued (auth), with
\* the credential of the chosen stored entry (select_saved_credentials) or of
\* the one stored entry (add_next_entry); the credential and the students of
\* the answer are handed on together, to the finalize of the same invocation
\* or to the stash of select_student, which a choice leaves as it is; and
\* every entry created stores that credential for a student of that answer.
C29_CredentialOfTheLookup ==
    [][\A s \in Sessions :
        /\ (Resumes(s) /\ flow'[s].pc = "auth_get_students")
              => flow'[s].local.credential = issued' /\ issued' = issued + 1
        /\ (Resumes(s) /\ flow'[s].pc = "saved_get_students")
              => \E entry_id \in DOMAIN entries :
                    model_dump(flow'[s].local.credential) = entries[entry_id].data.credential
        /\ (Resumes(s) /\ flow'[s].pc = "next_get_students")
              => model_dump(flow'[s].local.credential) = entries[1].data.credential
        /\ \A r \in DirectoryResults :
              (r.ok /\ (\/ AuthGetStudentsReturn(s, r)
                        \/ SavedCredentialsGetStudentsReturn(s, r)
                        \/ AddNextGetStudentsReturn(s, r)))
                  => /\ flow'[s].pc \in DirectFinalizePcs
                           => /\ flow'[s].local.credential = flow[s].local.credential
                              /\ IdsOf(flow'[s].local.students) \subseteq IdsOf(r.students)
                              /\ Len(flow'[s].local.students) = 1
                     /\ flow'[s].cur_step = "select_student"
                           => /\ flow'[s].credential = flow[s].local.credential
                              /\ IdsOf(flow'[s].students) \subseteq IdsOf(r.students)
        /\ (Resumes(s) /\ flow'[s].pc = "select_student_set_unique_id")
              => /\ flow'[s].credential = flow[s].credential
                 /\ flow'[s].students = flow[s].students
        /\ (Resumes(s) /\ Created(s)')
              => LET credential == IF flow[s].pc \in DirectFinalizePcs
                                   THEN flow[s].local.credential ELSE flow[s].credential
                     students == IF flow[s].pc \in DirectFinalizePcs
                                 THEN flow[s].local.students ELSE flow[s].students
                 IN /\ Len(entries') = Len(entries) + 1
                    /\ entries'[Len(entries')].data.credential = model_dump(credential)
                    /\ entries'[Len(entries')].data.student_id \in IdsOf(students)
                    /\ flow'[s].result.data = entries'[Len(entries')].data
      ]_vars

\* The third entry was created with the credential of the second, which the
\* flow had chosen among the stored ones, not with that of the first.
C29_Witness ==
    \E s \in Sessions :
        /\ Len(entries) = 3
        /\ entries[1] = EarlierEntry
        /\ entries[2].data.credential = model_dump(2)
        /\ entries[3].data.credential = model_dump(2)
        /\ Created(s)
        /\ flow[s].result.data = entries[3].data
        /\ flow[s].credential = NoCred

\* ------------------------------------------------------------------- C30
\* The directory's answer lists the student of entry e.
Lists(r, e) ==
    r.ok /\ \E k \in DOMAIN r.students : Str(r.students[k].id) = entries[e].data.student_id

\* What async_setup_entry raises for a failed answer of the directory.
SetupRaises(r, e) ==
    IF r.ok \/ r.exc = "CertificateNotFoundException" THEN "ConfigEntryAuthFailed"
    ELSE IF r.exc \in {"FailedRequestException", "HttpUnsuccessfullStatusException",
                       "ClientConnectorError"} THEN "ConfigEntryNotReady"
    ELSE r.exc

\* The clients of the entries other than e are left as they are.
OthersKept(e) ==
    \A k \in DOMAIN SetupEntries \ {e} :
        /\ k \in DOMAIN hass_data'.clients <=> k \in DOMAIN hass_data.clients
        /\ k \in DOMAIN hass_data.clients => hass_data'.clients[k] = hass_data.clients[k]

====
